---------------------------- MODULE Spec2Model ----------------------------
(***************************************************************************)
(* VsiVisualization (src/src/pages/map/page.tsx): the component that       *)
(* fetches the VSI records, filters them by name and state, and builds the *)
(* node list and edge list handed to ReactFlow.                            *)
(*                                                                         *)
(* Text that the code lower-cases, searches or strips (name, state,        *)
(* pwState, the two filter inputs) is a sequence of one-character strings. *)
(* Text that the code only concatenates into ids (peerAddress, node and    *)
(* edge ids) is a TLA+ string.  A property that is absent from a record    *)
(* (JavaScript undefined) is a field absent from the TLA+ record.          *)
(***************************************************************************)
EXTENDS Integers, Sequences, FiniteSets, TLC

VARIABLES
    allVsis,        \* useState<Vsi[]>        page.tsx:52
    filterName,     \* useState<string>       page.tsx:53
    filterState,    \* useState<string>       page.tsx:54
    loading,        \* useState<boolean>      page.tsx:55
    error,          \* useState<string|null>  page.tsx:56, <<>> is null
    nodes,          \* useNodesState          page.tsx:48
    edges,          \* useEdgesState          page.tsx:49
    nodesPass,      \* parity of the pass that wrote nodes
    edgesPass,      \* parity of the pass that wrote edges
    passNo,         \* parity of the number of passes run so far
    filteredVsis,   \* the local filteredVsis of the last pass, page.tsx:87
    effectPending,  \* the processing effect is scheduled (its deps changed)
    issued,         \* number of fetchData() calls started so far
    inflight,       \* the fetchData() calls still awaiting axios.get
    crashed,        \* an effect threw: React has unmounted the component
    prevGraph       \* history: input and output of the pass before the last

vars == <<allVsis, filterName, filterState, loading, error, nodes, edges,
          nodesPass, edgesPass, passNo, filteredVsis, effectPending,
          issued, inflight, crashed, prevGraph>>

---------------------------------------------------------------------------
(* Bounds of the model *)

MaxRecords == 2
MaxFetch == 2

(* Layout constants of the processing effect *)

VsiBaseX == 150
VsiSpacing == 250
VsiYPos == 100
PeerYPos == 400
PeerBaseX == 100
PeerSpacing == 200

---------------------------------------------------------------------------
(* JavaScript values *)

Has(r, f) == f \in DOMAIN r

\* r.f as an optional value: <<>> is undefined, <<v>> is the value v
Opt(r, f) == IF Has(r, f) THEN <<r[f]>> ELSE <<>>

\* `${x}` of a string that may be undefined
TemplateStr(o) == IF o = <<>> THEN "undefined" ELSE o[1]

\* `${x}` of a number that may be undefined
TemplateNum(o) == IF o = <<>> THEN "undefined" ELSE ToString(o[1])

UpperChars == <<"A","B","C","D","E","F","G","H","I","J","K","L","M",
                "N","O","P","Q","R","S","T","U","V","W","X","Y","Z">>

LowerChars == <<"a","b","c","d","e","f","g","h","i","j","k","l","m",
                "n","o","p","q","r","s","t","u","v","w","x","y","z">>

toLowerCaseChar(c) ==
    IF \E i \in DOMAIN UpperChars : UpperChars[i] = c
    THEN LowerChars[CHOOSE i \in DOMAIN UpperChars : UpperChars[i] = c]
    ELSE c

\* String.prototype.toLowerCase
toLowerCase(s) == [i \in DOMAIN s |-> toLowerCaseChar(s[i])]

\* String.prototype.includes: scan the start positions from left to right
RECURSIVE includesFrom(_, _, _)
includesFrom(hay, needle, i) ==
    IF i + Len(needle) - 1 > Len(hay) THEN FALSE
    ELSE IF SubSeq(hay, i, i + Len(needle) - 1) = needle THEN TRUE
    ELSE includesFrom(hay, needle, i + 1)

includes(hay, needle) == includesFrom(hay, needle, 1)

\* String.prototype.indexOf for one character, 0 when absent (1-based)
RECURSIVE indexOfFrom(_, _, _)
indexOfFrom(s, c, i) ==
    IF i > Len(s) THEN 0
    ELSE IF s[i] = c THEN i
    ELSE indexOfFrom(s, c, i + 1)

\* String.prototype.replace(c, '') with a string pattern: the first
\* occurrence of c is removed, wherever it is; later ones stay
replaceFirst(s, c) ==
    LET k == indexOfFrom(s, c, 1)
    IN  IF k = 0 THEN s
        ELSE SubSeq(s, 1, k - 1) \o SubSeq(s, k + 1, Len(s))

---------------------------------------------------------------------------
(* The filter predicate, page.tsx:87-91 *)

nameMatchCaseSensitive(vsi, fName) ==
    IF fName # <<>> THEN includes(vsi.name, fName) ELSE TRUE

\* const nameMatch = filterName ? vsi.name.toLowerCase().includes(...) : true
nameMatch(vsi, fName) ==
    IF fName # <<>>
    THEN includes(toLowerCase(vsi.name), toLowerCase(fName))
    ELSE TRUE

stateMatchSubstring(vsi, fState) ==
    IF fState # <<>>
    THEN includes(replaceFirst(toLowerCase(vsi.state), "*"), toLowerCase(fState))
    ELSE TRUE

\* const stateMatch = filterState ? vsi.state.toLowerCase().replace('*','')
\*                                   === filterState.toLowerCase() : true
stateMatch(vsi, fState) ==
    IF fState # <<>>
    THEN replaceFirst(toLowerCase(vsi.state), "*") = toLowerCase(fState)
    ELSE TRUE

\* vsi.name.toLowerCase() / vsi.state.toLowerCase() on undefined: TypeError.
\* Both constants are evaluated for every record, name first.
predicateThrows(vsi, fName, fState) ==
    \/ fName # <<>> /\ ~Has(vsi, "name")
    \/ fState # <<>> /\ ~Has(vsi, "state")

predicate(vsi, fName, fState) ==
    nameMatch(vsi, fName) /\ stateMatch(vsi, fState)

filterThrows(all, fName, fState) ==
    \E i \in DOMAIN all : predicateThrows(all[i], fName, fState)

RECURSIVE filterReversed(_, _, _)
filterReversed(all, fName, fState) ==
    IF all = <<>> THEN <<>>
    ELSE LET rest == filterReversed(Tail(all), fName, fState)
         IN  IF predicate(Head(all), fName, fState)
             THEN rest \o <<Head(all)>>
             ELSE rest

\* allVsis.filter(...): the records that pass, in the order of allVsis
RECURSIVE filterVsis(_, _, _)
filterVsis(all, fName, fState) ==
    IF all = <<>> THEN <<>>
    ELSE LET rest == filterVsis(Tail(all), fName, fState)
         IN  IF predicate(Head(all), fName, fState)
             THEN <<Head(all)>> \o rest
             ELSE rest

---------------------------------------------------------------------------
(* Node and edge generation, page.tsx:80-118.  The accumulator holds the  *)
(* locals newNodes, newEdges, peerNodeMap and peerXPos of one pass.        *)

AccKeepingPeerNodes ==
    LET old == SelectSeq(nodes, LAMBDA n : n.type = "peerNode")
        ips == {old[i].data.ip : i \in DOMAIN old}
    IN  [newNodes |-> old, newEdges |-> <<>>,
         peerNodeMap |->
            [ip \in ips |-> old[CHOOSE i \in DOMAIN old : old[i].data.ip = ip]],
         peerXPos |-> PeerBaseX + Len(old) * PeerSpacing]

\* page.tsx:80-84: the locals are created anew by every run of the effect
EmptyAcc ==
    [newNodes |-> <<>>, newEdges |-> <<>>, peerNodeMap |-> <<>>,
     peerXPos |-> PeerBaseX]

\* page.tsx:103
vsiNodeIdOf(vsi) == "vsi-" \o TemplateNum(Opt(vsi, "id"))

\* page.tsx:108
peerNodeIdOf(peer) == "peer-" \o TemplateStr(Opt(peer, "peerAddress"))

\* page.tsx:104
makeVsiNode(vsi, vsiIndex) ==
    [id |-> vsiNodeIdOf(vsi), type |-> "vsiNode",
     position |-> [x |-> VsiBaseX + vsiIndex * VsiSpacing, y |-> VsiYPos],
     data |-> vsi]

\* page.tsx:111
makePeerNode(peer, x) ==
    [id |-> peerNodeIdOf(peer), type |-> "peerNode",
     position |-> [x |-> x, y |-> PeerYPos],
     data |-> [ip |-> Opt(peer, "peerAddress"),
               name |-> Opt(peer, "peerDeviceName")]]

isPeerUpCaseSensitive(peer) ==
    IF Has(peer, "pwState") THEN peer.pwState = <<"u", "p">> ELSE FALSE

\* page.tsx:114  peer.pwState?.toLowerCase() === 'up'
isPeerUpOf(peer) ==
    IF Has(peer, "pwState") THEN toLowerCase(peer.pwState) = <<"u", "p">>
    ELSE FALSE

\* page.tsx:114-115
makeEdge(vsi, peer) ==
    [id |-> "edge-" \o TemplateNum(Opt(vsi, "id")) \o "-"
                    \o TemplateNum(Opt(peer, "id")),
     source |-> vsiNodeIdOf(vsi),
     target |-> peerNodeIdOf(peer),
     animated |-> isPeerUpOf(peer),
     data |-> [pwState |-> Opt(peer, "pwState"), pwId |-> Opt(peer, "pwId")]]

peerKnownAlways(acc, peer) == TRUE

peerKnownNever(acc, peer) == FALSE

\* page.tsx:109-110  peerNodeMap.get(peerIp) is a node (truthy) or undefined
peerKnown(acc, peer) == Opt(peer, "peerAddress") \in DOMAIN acc.peerNodeMap

peerStepLastWins(acc, vsi, peer) ==
    LET peerIp == Opt(peer, "peerAddress")
        withNode ==
            IF peerKnown(acc, peer)
            THEN [acc EXCEPT !.newNodes =
                    [k \in DOMAIN @ |->
                        IF @[k].type = "peerNode" /\ @[k].data.ip = peerIp
                        THEN makePeerNode(peer, @[k].position.x)
                        ELSE @[k]]]
            ELSE [acc EXCEPT
                    !.newNodes = Append(@, makePeerNode(peer, acc.peerXPos)),
                    !.peerNodeMap =
                        (peerIp :> makePeerNode(peer, acc.peerXPos)) @@ @,
                    !.peerXPos = @ + PeerSpacing]
    IN  [withNode EXCEPT !.newEdges = Append(@, makeEdge(vsi, peer))]

\* page.tsx:108-115, the body of vsi.peers.forEach
peerStep(acc, vsi, peer) ==
    LET peerIp == Opt(peer, "peerAddress")
        peerNode == makePeerNode(peer, acc.peerXPos)
        withNode ==
            IF peerKnown(acc, peer) THEN acc
            ELSE [acc EXCEPT
                    !.newNodes = Append(@, peerNode),
                    !.peerNodeMap = (peerIp :> peerNode) @@ @,
                    !.peerXPos = @ + PeerSpacing]
    IN  [withNode EXCEPT !.newEdges = Append(@, makeEdge(vsi, peer))]

RECURSIVE peersForEach(_, _, _)
peersForEach(acc, vsi, peers) ==
    IF peers = <<>> THEN acc
    ELSE peersForEach(peerStep(acc, vsi, Head(peers)), vsi, Tail(peers))

pushVsiNodeNever(acc, vsi, vsiIndex) == acc

\* page.tsx:104  newNodes.push({ id: vsiNodeId, ... })
pushVsiNode(acc, vsi, vsiIndex) ==
    [acc EXCEPT !.newNodes = Append(@, makeVsiNode(vsi, vsiIndex))]

\* page.tsx:103-117, the body of vsisToRender.forEach; vsiIndex is 0-based
vsiStep(acc, vsi, vsiIndex) ==
    LET withVsi == pushVsiNode(acc, vsi, vsiIndex)
    IN  IF Has(vsi, "peers") /\ Len(vsi.peers) > 0
        THEN peersForEach(withVsi, vsi, vsi.peers)
        ELSE withVsi

RECURSIVE vsisForEach(_, _, _)
vsisForEach(acc, vsis, vsiIndex) ==
    IF vsiIndex >= Len(vsis) THEN acc
    ELSE vsisForEach(vsiStep(acc, vsis[vsiIndex + 1], vsiIndex), vsis,
                     vsiIndex + 1)

\* page.tsx:80-118: the values of newNodes and newEdges at page.tsx:120
synthesize(vsisToRender) == vsisForEach(EmptyAcc, vsisToRender, 0)

---------------------------------------------------------------------------
(* Input domains: what the API may answer and what the user may type *)

\* a Vsi as JSON delivers it; nameO, stateO, peersO are <<>> when absent
MkVsi(id, nameO, stateO, peersO) ==
    [id |-> id]
    @@ (IF nameO = <<>> THEN <<>> ELSE [name |-> nameO[1]])
    @@ (IF stateO = <<>> THEN <<>> ELSE [state |-> stateO[1]])
    @@ (IF peersO = <<>> THEN <<>> ELSE [peers |-> peersO[1]])

\* a VsiPeerInfo; addrO, pwStateO, devO are <<>> when absent
MkPeer(id, addrO, pwStateO, devO) ==
    [id |-> id, pwId |-> id + 100]
    @@ (IF addrO = <<>> THEN <<>> ELSE [peerAddress |-> addrO[1]])
    @@ (IF pwStateO = <<>> THEN <<>> ELSE [pwState |-> pwStateO[1]])
    @@ (IF devO = <<>> THEN <<>> ELSE [peerDeviceName |-> devO[1]])

StrUp == <<"u", "p">>
StrDown == <<"d", "o", "w", "n">>
StrUpMarked == <<"u", "p", "*">>
StrCoreSw1 == <<"C", "O", "R", "E", "-", "S", "W", "1">>

\* the text input of page.tsx:142-149 accepts any string
FilterNames == {<<>>, <<"b">>, <<"a", "B">>, <<"c", "o", "r", "e">>}

\* the options of the select, page.tsx:157-159
FilterStates == {<<>>, StrUp, StrDown}

\* records without peers that differ in name and state
FilterRecords ==
    << MkVsi(1, <<StrCoreSw1>>, <<StrUpMarked>>, <<>>),
       MkVsi(2, <<<<"A", "b">>>>, <<<<"U", "P">>>>, <<>>),
       MkVsi(3, <<<<"b">>>>, <<<<"u", "*", "p">>>>, <<>>),
       MkVsi(4, <<<<"x", "a">>>>, <<<<"u", "p", "*", "*">>>>, <<>>),
       MkVsi(5, <<<<>>>>, <<StrDown>>, <<>>),
       MkVsi(6, <<>>, <<StrUp>>, <<>>),
       MkVsi(7, <<<<"a", "B">>>>, <<>>, <<>>),
       MkVsi(8, <<<<"A", "b">>>>, <<<<>>>>, <<>>),
       MkVsi(9, <<<<"b", "a">>>>, <<<<"*", "u", "p">>>>, <<>>),
       MkVsi(10, <<<<"b">>>>, <<<<"x", "u", "p">>>>, <<>>) >>

\* a record that the API delivered without an id
NoIdRecord ==
    [name |-> <<"A", "b">>, state |-> StrUp,
     peers |-> << MkPeer(18, <<"10.0.0.1">>, <<StrUp>>, <<>>) >>]

FilterPool == {FilterRecords[i] : i \in DOMAIN FilterRecords} \cup {NoIdRecord}

IsInjective(q) == \A i, j \in DOMAIN q : q[i] = q[j] => i = j

SeqsUpTo(S, n) == UNION {[1..k -> S] : k \in 0..n}

FilterDatasets == {q \in SeqsUpTo(FilterPool, MaxRecords) : IsInjective(q)}

\* the peers property of a record: absent, empty, one link, two addresses,
\* one address twice, an empty address first, a missing address first
PeerLists ==
    { <<>>,
      << <<>> >>,
      << << MkPeer(10, <<"10.0.0.1">>, <<StrUp>>, <<"pe1">>) >> >>,
      << << MkPeer(10, <<"10.0.0.1">>, <<<<"U", "p">>>>, <<>>),
            MkPeer(11, <<"10.0.0.2">>, <<StrDown>>, <<"pe2">>) >> >>,
      << << MkPeer(12, <<"10.0.0.2">>, <<StrDown>>, <<"pe2">>),
            MkPeer(13, <<"10.0.0.2">>, <<>>, <<"pe2b">>) >> >>,
      << << MkPeer(14, <<"">>, <<StrUp>>, <<>>),
            MkPeer(15, <<"10.0.0.1">>, <<StrUp>>, <<"pe1">>) >> >>,
      << << MkPeer(16, <<>>, <<StrDown>>, <<>>),
            MkPeer(17, <<"undefined">>, <<StrUpMarked>>, <<>>) >> >> }

\* record k of a dataset with peers: odd ids are "Ab"/"up*", even "b"/"down"
PeerRecord(k, peersO) ==
    IF k % 2 = 1
    THEN MkVsi(k, <<<<"A", "b">>>>, <<StrUpMarked>>, peersO)
    ELSE MkVsi(k, <<<<"b">>>>, <<StrDown>>, peersO)

PeerDatasets ==
    { [k \in DOMAIN q |-> PeerRecord(k, q[k])] :
        q \in SeqsUpTo(PeerLists, MaxRecords) }

Datasets == FilterDatasets \cup PeerDatasets

\* what axios.get may deliver in the orchestration runs
Responses ==
    { <<>>,
      << FilterRecords[1] >>,
      << FilterRecords[6] >>,
      << PeerRecord(1, << << MkPeer(10, <<"10.0.0.1">>, <<StrUp>>, <<>>) >> >>),
         PeerRecord(2, << << MkPeer(11, <<"10.0.0.1">>, <<StrDown>>, <<>>) >> >>) >>,
      << PeerRecord(1, << << MkPeer(10, <<"10.0.0.1">>, <<StrUp>>, <<>>) >> >>),
         PeerRecord(2, << << MkPeer(12, <<"10.0.0.2">>, <<StrDown>>, <<>>) >> >>) >> }

FetchErrorMessage == "Network Error"

---------------------------------------------------------------------------
(* The component *)

\* setNodes(newNodes), page.tsx:120
SetNodes(newNodes, p) == nodes' = newNodes /\ nodesPass' = p

\* setEdges(newEdges), page.tsx:121
SetEdges(newEdges, p) == edges' = newEdges /\ edgesPass' = p

PublishNodesOnly(newNodes, newEdges, p) ==
    SetNodes(newNodes, p) /\ UNCHANGED <<edges, edgesPass>>

\* page.tsx:120-121: both updates are queued inside one effect and React
\* applies them in one commit
Publish(newNodes, newEdges, p) ==
    SetNodes(newNodes, p) /\ SetEdges(newEdges, p)

\* before any pass: nothing filtered, nothing published
NoGraph == [filtered |-> <<>>, nodes |-> <<>>, edges |-> <<>>]

\* the state of a freshly mounted component, page.tsx:48-56; the mount
\* commit schedules both effects
Init ==
    /\ allVsis = <<>>
    /\ filterName = <<>>
    /\ filterState = <<>>
    /\ loading = TRUE
    /\ error = <<>>
    /\ nodes = <<>>
    /\ edges = <<>>
    /\ nodesPass = 0
    /\ edgesPass = 0
    /\ passNo = 0
    /\ filteredVsis = <<>>
    /\ effectPending = TRUE
    /\ issued = 0
    /\ inflight = {}
    /\ crashed = FALSE
    /\ prevGraph = NoGraph

\* page.tsx:62-75 up to the await: fetchData() starts a request.  The effect
\* has no cleanup and keeps no request token, so a further invocation on
\* the same instance (React StrictMode runs mount effects twice) starts a
\* further request while the earlier one is still awaited.
FetchStart ==
    /\ ~crashed
    /\ issued < MaxFetch
    /\ loading' = TRUE
    /\ error' = <<>>
    /\ issued' = issued + 1
    /\ inflight' = inflight \cup {issued + 1}
    /\ UNCHANGED <<allVsis, filterName, filterState, nodes, edges, nodesPass,
                   edgesPass, passNo, filteredVsis, effectPending, crashed,
                   prevGraph>>

FetchSuccessMerge(i, data) ==
    /\ ~crashed
    /\ ~effectPending
    /\ i \in inflight
    /\ allVsis' = allVsis \o data
    /\ loading' = FALSE
    /\ inflight' = inflight \ {i}
    /\ effectPending' = TRUE
    /\ UNCHANGED <<filterName, filterState, error, nodes, edges, nodesPass,
                   edgesPass, passNo, filteredVsis, issued, crashed,
                   prevGraph>>

\* page.tsx:67-68 and 72: request i resolves with data
FetchSuccess(i, data) ==
    /\ ~crashed
    /\ ~effectPending
    /\ i \in inflight
    /\ allVsis' = data
    /\ loading' = FALSE
    /\ inflight' = inflight \ {i}
    /\ effectPending' = TRUE
    /\ UNCHANGED <<filterName, filterState, error, nodes, edges, nodesPass,
                   edgesPass, passNo, filteredVsis, issued, crashed,
                   prevGraph>>

FetchFailClearsGraph(i) ==
    /\ ~crashed
    /\ i \in inflight
    /\ error' = <<FetchErrorMessage>>
    /\ loading' = FALSE
    /\ inflight' = inflight \ {i}
    /\ nodes' = <<>>
    /\ edges' = <<>>
    /\ UNCHANGED <<allVsis, filterName, filterState, nodesPass, edgesPass,
                   passNo, filteredVsis, effectPending, issued, crashed,
                   prevGraph>>

\* page.tsx:70-72: request i rejects
FetchFail(i) ==
    /\ ~crashed
    /\ i \in inflight
    /\ error' = <<FetchErrorMessage>>
    /\ loading' = FALSE
    /\ inflight' = inflight \ {i}
    /\ UNCHANGED <<allVsis, filterName, filterState, nodes, edges, nodesPass,
                   edgesPass, passNo, filteredVsis, effectPending, issued,
                   crashed, prevGraph>>

\* page.tsx:147: onChange of the name input
SetFilterName(v) ==
    /\ ~crashed
    /\ ~effectPending
    /\ v # filterName
    /\ filterName' = v
    /\ effectPending' = TRUE
    /\ UNCHANGED <<allVsis, filterState, loading, error, nodes, edges,
                   nodesPass, edgesPass, passNo, filteredVsis, issued,
                   inflight, crashed, prevGraph>>

SetFilterStateNoEffect(v) ==
    /\ ~crashed
    /\ ~effectPending
    /\ v # filterState
    /\ filterState' = v
    /\ UNCHANGED <<allVsis, filterName, loading, error, nodes, edges,
                   nodesPass, edgesPass, passNo, filteredVsis, issued,
                   inflight, crashed, prevGraph, effectPending>>

\* page.tsx:154: onChange of the state select; filterState is a dependency
\* of the processing effect (page.tsx:124)
SetFilterState(v) ==
    /\ ~crashed
    /\ ~effectPending
    /\ v # filterState
    /\ filterState' = v
    /\ effectPending' = TRUE
    /\ UNCHANGED <<allVsis, filterName, loading, error, nodes, edges,
                   nodesPass, edgesPass, passNo, filteredVsis, issued,
                   inflight, crashed, prevGraph>>

\* page.tsx:78-124: the processing effect, one synthesis pass
ProcessEffect ==
    /\ ~crashed
    /\ effectPending
    /\ effectPending' = FALSE
    /\ IF filterThrows(allVsis, filterName, filterState)
       THEN /\ crashed' = TRUE
            /\ UNCHANGED <<nodes, edges, nodesPass, edgesPass, passNo,
                           filteredVsis, prevGraph>>
       ELSE LET f == filterVsis(allVsis, filterName, filterState)
                g == synthesize(f)
            IN  /\ filteredVsis' = f
                /\ passNo' = 1 - passNo
                /\ Publish(g.newNodes, g.newEdges, 1 - passNo)
                /\ crashed' = FALSE
                /\ prevGraph' = [filtered |-> filteredVsis,
                                 nodes |-> nodes, edges |-> edges]
    /\ UNCHANGED <<allVsis, filterName, filterState, loading, error, issued,
                   inflight>>

Next ==
    \/ FetchStart
    \/ \E i \in 1..MaxFetch, data \in Responses : FetchSuccess(i, data)
    \/ \E i \in 1..MaxFetch : FetchFail(i)
    \/ \E v \in FilterNames : SetFilterName(v)
    \/ \E v \in FilterStates : SetFilterState(v)
    \/ ProcessEffect

Spec == Init /\ [][Next]_vars

\* page.tsx:66-72: the awaited request settles, by resolving or by
\* rejecting, and React runs a scheduled effect
RequestSettles(i) ==
    FetchFail(i) \/ \E data \in Responses : FetchSuccess(i, data)

LiveSpec ==
    /\ Spec
    /\ WF_vars(ProcessEffect)
    /\ \A i \in 1..MaxFetch : WF_vars(RequestSettles(i))

\* one pass on every dataset and every pair of filter values: the state
\* after a response was stored, with the processing effect scheduled
PassInit ==
    /\ allVsis \in Datasets
    /\ filterName \in FilterNames
    /\ filterState \in FilterStates
    /\ loading = FALSE
    /\ error = <<>>
    /\ nodes = <<>>
    /\ edges = <<>>
    /\ nodesPass = 1
    /\ edgesPass = 1
    /\ passNo = 1
    /\ filteredVsis = <<>>
    /\ effectPending = TRUE
    /\ issued = 1
    /\ inflight = {}
    /\ crashed = FALSE
    /\ prevGraph = NoGraph

PassNext == ProcessEffect

PassSpec == PassInit /\ [][PassNext]_vars

---------------------------------------------------------------------------
(* Vocabulary of the properties *)

\* the last pass ran to completion on the current dataset and filters
Settled == ~effectPending /\ ~crashed

PeersOf(vsi) == IF Has(vsi, "peers") THEN vsi.peers ELSE <<>>

\* <<i, j>>: peer link j of record i of the filtered set
LinkRefs ==
    UNION { {<<i, j>> : j \in DOMAIN PeersOf(filteredVsis[i])} :
            i \in DOMAIN filteredVsis }

LinkAt(ref) == PeersOf(filteredVsis[ref[1]])[ref[2]]

Resolvable(peer) == Has(peer, "peerAddress") /\ peer.peerAddress # ""

ResolvableRefs == {ref \in LinkRefs : Resolvable(LinkAt(ref))}

\* the edges that carry the composite id of (record, link)
EdgesOf(ref) ==
    {k \in DOMAIN edges :
        edges[k].id = "edge-" \o TemplateNum(Opt(filteredVsis[ref[1]], "id"))
                              \o "-" \o ToString(LinkAt(ref).id)}

PeerNodesAt(a) ==
    {k \in DOMAIN nodes :
        nodes[k].type = "peerNode" /\ nodes[k].data.ip = <<a>>}

VsiNodeIndexes == {k \in DOMAIN nodes : nodes[k].type = "vsiNode"}

InFiltered(vsi) == \E j \in DOMAIN filteredVsis : filteredVsis[j] = vsi

\* needle occurs in hay at some position
OccursIn(needle, hay) ==
    \E k \in 0..Len(hay) :
        /\ k + Len(needle) <= Len(hay)
        /\ \A m \in 1..Len(needle) : hay[k + m] = needle[m]

\* s with one trailing "*" dropped, if there is one
StripTrailingMarker(s) ==
    IF Len(s) > 0 /\ s[Len(s)] = "*" THEN SubSeq(s, 1, Len(s) - 1) ELSE s

\* t is s with its leftmost "*" dropped, or s itself when s has none
DropsLeftmostMarker(s, t) ==
    IF \A k \in DOMAIN s : s[k] # "*"
    THEN t = s
    ELSE \E k \in DOMAIN s :
            /\ s[k] = "*"
            /\ \A m \in 1..(k - 1) : s[m] # "*"
            /\ Len(t) = Len(s) - 1
            /\ \A m \in 1..(k - 1) : t[m] = s[m]
            /\ \A m \in k..Len(t) : t[m] = s[m + 1]

NameTest(vsi) ==
    filterName = <<>>
    \/ (Has(vsi, "name")
        /\ OccursIn(toLowerCase(filterName), toLowerCase(vsi.name)))

StateTestTrailing(vsi) ==
    filterState = <<>>
    \/ (Has(vsi, "state")
        /\ StripTrailingMarker(toLowerCase(vsi.state)) = filterState)

StateTestLeftmost(vsi) ==
    filterState = <<>>
    \/ (Has(vsi, "state")
        /\ DropsLeftmostMarker(toLowerCase(vsi.state),
                               toLowerCase(filterState)))

\* s is t with some elements left out, order kept
IsSubsequence(s, t) ==
    \E f \in [DOMAIN s -> DOMAIN t] :
        /\ \A i, j \in DOMAIN s : i < j => f[i] < f[j]
        /\ \A i \in DOMAIN s : s[i] = t[f[i]]

---------------------------------------------------------------------------
(* Properties *)

\* C1: in the graph of one pass, two peer links with a resolvable address
\* have edges to the same peer node id exactly when their addresses are
\* equal, every such link has an edge, and the node list holds exactly one
\* peer node for each such address, which is the target of those edges.
C1_PeerDedup ==
    Settled =>
        /\ \A r1, r2 \in ResolvableRefs :
             \A k1 \in EdgesOf(r1), k2 \in EdgesOf(r2) :
                (LinkAt(r1).peerAddress = LinkAt(r2).peerAddress)
                    <=> (edges[k1].target = edges[k2].target)
        /\ \A r \in ResolvableRefs :
             /\ EdgesOf(r) # {}
             /\ Cardinality(PeerNodesAt(LinkAt(r).peerAddress)) = 1
             /\ \A k \in EdgesOf(r), n \in PeerNodesAt(LinkAt(r).peerAddress) :
                    edges[k].target = nodes[n].id
        /\ \A n \in DOMAIN nodes :
             nodes[n].type = "peerNode" =>
                \E r \in LinkRefs :
                    Opt(LinkAt(r), "peerAddress") = nodes[n].data.ip

\* two records of the filtered set share an address and a further address
\* occurs as well
C1_Witness ==
    /\ Settled
    /\ \E r1, r2, r3 \in ResolvableRefs :
          /\ r1[1] # r2[1]
          /\ LinkAt(r1).peerAddress = LinkAt(r2).peerAddress
          /\ LinkAt(r3).peerAddress # LinkAt(r1).peerAddress
    /\ Len(edges) >= 3

\* C2: a peer link whose peerAddress is empty or missing gets neither a
\* peer node nor an edge.
C2_SkipsUnresolvable ==
    Settled =>
        \A r \in LinkRefs \ ResolvableRefs :
            /\ EdgesOf(r) = {}
            /\ \A n \in DOMAIN nodes :
                 nodes[n].type = "peerNode" =>
                    nodes[n].data.ip # Opt(LinkAt(r), "peerAddress")

\* C3: the edges are exactly one per (record, link) pair with a resolvable
\* address, from "vsi-<record.id>" to "peer-<peerAddress>".
C3_EdgesExactlyResolvable ==
    Settled =>
        /\ Len(edges) = Cardinality(ResolvableRefs)
        /\ \A r \in ResolvableRefs :
             /\ Cardinality(EdgesOf(r)) = 1
             /\ \A k \in EdgesOf(r) :
                  /\ edges[k].source
                        = "vsi-" \o TemplateNum(Opt(filteredVsis[r[1]], "id"))
                  /\ edges[k].target = "peer-" \o LinkAt(r).peerAddress

\* C4: the node list holds exactly one vsi node per record of the filtered
\* set, in the same order, so their numbers are equal.
C4_OneVsiNodePerRecord ==
    Settled =>
        /\ Cardinality(VsiNodeIndexes) = Len(filteredVsis)
        /\ \A i \in DOMAIN filteredVsis :
             Cardinality({k \in VsiNodeIndexes :
                            nodes[k].data = filteredVsis[i]}) = 1

C4_Witness ==
    /\ Settled
    /\ Len(filteredVsis) = 2
    /\ Len(allVsis) = 2
    /\ Len(nodes) > 2

\* C5 as stated: with a non-empty stateFilter a record passes the state
\* test iff its lower-cased state with one trailing marker stripped equals
\* the filter value.
C5_TrailingMarkerOnly ==
    Settled /\ filterName = <<>> /\ filterState # <<>> =>
        \A i \in DOMAIN allVsis :
            InFiltered(allVsis[i]) <=> StateTestTrailing(allVsis[i])

\* C5 amended: with a non-empty stateFilter a record passes the state test
\* iff its lower-cased state with its leftmost marker removed, wherever
\* that marker is, equals the lower-cased filter value; an empty
\* stateFilter passes every record.
C5_LeftmostMarker ==
    Settled /\ filterName = <<>> =>
        \A i \in DOMAIN allVsis :
            InFiltered(allVsis[i]) <=> StateTestLeftmost(allVsis[i])

\* the state filter kept "up*" and dropped "up**" and "xup"
C5_Witness ==
    /\ Settled
    /\ filterState = StrUp
    /\ filterName = <<>>
    /\ \E i \in DOMAIN allVsis :
          allVsis[i].state = StrUpMarked /\ InFiltered(allVsis[i])
    /\ \E i \in DOMAIN allVsis :
          allVsis[i].state \in {<<"u", "p", "*", "*">>, <<"x", "u", "p">>}
          /\ ~InFiltered(allVsis[i])

\* C6: with a non-empty nameFilter a record passes the name test iff the
\* lower-cased filter occurs in the lower-cased name; an empty nameFilter
\* passes every record; the filtered set holds exactly the records that
\* pass both the name test and the state test.
C6_NameSubstring ==
    Settled =>
        \A i \in DOMAIN allVsis :
            InFiltered(allVsis[i])
                <=> (NameTest(allVsis[i]) /\ StateTestLeftmost(allVsis[i]))

\* filter "core" kept "CORE-SW1" and dropped another record
C6_Witness ==
    /\ Settled
    /\ filterState = <<>>
    /\ filterName = <<"c", "o", "r", "e">>
    /\ Len(allVsis) = 2
    /\ Len(filteredVsis) = 1
    /\ filteredVsis[1].name = StrCoreSw1

\* C7: the filtered set is a subsequence of the dataset in its order, and
\* it is the whole dataset when both filters are empty.
C7_StableFilter ==
    Settled =>
        /\ IsSubsequence(filteredVsis, allVsis)
        /\ (filterName = <<>> /\ filterState = <<>>
                => filteredVsis = allVsis)

\* a non-empty filter kept two records
C7_Witness ==
    /\ Settled
    /\ filterName # <<>>
    /\ Len(filteredVsis) = 2
    /\ filteredVsis[1] # filteredVsis[2]

\* C8: a record without a name (missing or empty) is excluded when the
\* nameFilter is non-empty, one without a state when the stateFilter is
\* non-empty, and the filter completes.
C8_MissingFieldsExcluded ==
    ~effectPending =>
        /\ ~crashed
        /\ \A i \in DOMAIN allVsis :
             /\ (filterName # <<>> /\ Opt(allVsis[i], "name") \in {<<>>, <<<<>>>>}
                    => ~InFiltered(allVsis[i]))
             /\ (filterState # <<>> /\ Opt(allVsis[i], "state") \in {<<>>, <<<<>>>>}
                    => ~InFiltered(allVsis[i]))

\* C9: nodes and edges are always those of the same pass.
C9_SamePass == nodesPass = edgesPass

\* a second or later pass has published a graph with edges
C9_Witness ==
    /\ Settled
    /\ edges # <<>>
    /\ filterName # <<>>
    /\ nodesPass = edgesPass

\* C10: a response is stored only if it answers the most recently issued
\* fetch.
C10_LastIssuedWins ==
    [][allVsis' # allVsis => inflight \ inflight' = {issued}]_vars


\* C11: a failed fetch (a request leaves inflight and no response is
\* stored, so no pass is scheduled) records a non-empty error and leaves
\* the dataset and the published nodes and edges as they were.
C11_FailureKeepsGraph ==
    [][inflight' # inflight /\ inflight' \subseteq inflight
       /\ effectPending' = effectPending
         => /\ error' # <<>>
            /\ allVsis' = allVsis
            /\ nodes' = nodes
            /\ edges' = edges]_vars

\* a fetch failed after a graph with edges had been published
C11_Witness ==
    /\ error # <<>>
    /\ inflight = {}
    /\ issued = 2
    /\ Len(allVsis) = 2
    /\ Len(edges) = 2
    /\ Len(nodes) = 3

\* C12: a record without an id makes the pass fail: no published graph
\* holds a vsi node for such a record.
C12_NoNodeWithoutId ==
    \A k \in DOMAIN nodes :
        nodes[k].type = "vsiNode" => Has(nodes[k].data, "id")

\* the letters of s, case folded, spell "up"
SpellsUp(s) ==
    /\ Len(s) = 2
    /\ s[1] \in {"u", "U"}
    /\ s[2] \in {"p", "P"}

\* C13: every peer link of the filtered set has its edge, and the edge's
\* is-up flag is true iff the link has a pseudowire state that is "up"
\* in any letter case.
C13_IsUpFlag ==
    Settled =>
        \A r \in LinkRefs :
            /\ EdgesOf(r) # {}
            /\ \A k \in EdgesOf(r) :
                 edges[k].animated
                    <=> (Has(LinkAt(r), "pwState")
                         /\ SpellsUp(LinkAt(r).pwState))

\* a link without a state has an edge that is not up, and a link with
\* state "Up" has an edge that is up
C13_Witness ==
    /\ Settled
    /\ \E r \in LinkRefs :
          /\ ~Has(LinkAt(r), "pwState")
          /\ \E k \in EdgesOf(r) : ~edges[k].animated
    /\ \E r \in LinkRefs :
          /\ Has(LinkAt(r), "pwState")
          /\ LinkAt(r).pwState = <<"U", "p">>
          /\ \E k \in EdgesOf(r) : edges[k].animated

\* C14: once the pass triggered by the latest dataset or filter change has
\* run, the published nodes and edges are the synthesis of the filter
\* applied to the current dataset with the current filter values.
C14_PublishedIsCurrent ==
    Settled =>
        LET g == synthesize(filterVsis(allVsis, filterName, filterState))
        IN  nodes = g.newNodes /\ edges = g.newEdges

\* both filters were changed after a response arrived, and the last pass
\* changed the published graph
C14_Witness ==
    /\ Settled
    /\ inflight = {}
    /\ Len(allVsis) = 2
    /\ filterName # <<>>
    /\ filterState # <<>>
    /\ nodes # <<>>
    /\ prevGraph.nodes # <<>>
    /\ prevGraph.nodes # nodes

\* the addresses (present or not) of the links of the filtered set
PeerIpsOfFiltered == {Opt(LinkAt(r), "peerAddress") : r \in LinkRefs}

\* C15: the published graph holds no peer node for an address that no
\* record of the current filtered set references.
C15_NoStalePeerNode ==
    Settled =>
        \A n \in DOMAIN nodes :
            nodes[n].type = "peerNode" => nodes[n].data.ip \in PeerIpsOfFiltered

\* the pass before the last published a peer node for an address that the
\* current filtered set, which is not empty, no longer references
C15_Witness ==
    /\ Settled
    /\ filteredVsis # <<>>
    /\ \E k \in DOMAIN prevGraph.nodes :
          /\ prevGraph.nodes[k].type = "peerNode"
          /\ prevGraph.nodes[k].data.ip \notin PeerIpsOfFiltered
          /\ \A n \in DOMAIN nodes : nodes[n].id # prevGraph.nodes[k].id

\* C16: when no record of the dataset matches the filters (a record
\* without a name matches no non-empty nameFilter, one without a state no
\* non-empty stateFilter), the pass completes and publishes an empty node
\* list and an empty edge list.
C16_EmptyResult ==
    ~effectPending
    /\ (\A i \in DOMAIN allVsis :
            ~(NameTest(allVsis[i]) /\ StateTestLeftmost(allVsis[i])))
        => ~crashed /\ nodes = <<>> /\ edges = <<>>

\* C17: a pass on the same filtered input as the pass before it publishes
\* the same node list and the same edge list.
C17_SameInputSameGraph ==
    Settled /\ prevGraph.filtered = filteredVsis
        => nodes = prevGraph.nodes /\ edges = prevGraph.edges

\* two passes in a row ran on the same filtered set, which has peer links
C17_Witness ==
    /\ Settled
    /\ prevGraph.filtered = filteredVsis
    /\ Len(filteredVsis) = 2
    /\ prevGraph.edges # <<>>
    /\ edges = prevGraph.edges
    /\ nodes = prevGraph.nodes

\* C18: a filter change or a pass leaves the dataset as it is; the
\* dataset changes only in a step in which a request completes without an
\* error being recorded, and then it is one of the responses, whole.
C18_DatasetFrame ==
    [][/\ (filterName' # filterName \/ filterState' # filterState
           \/ passNo' # passNo \/ filteredVsis' # filteredVsis)
          => allVsis' = allVsis
       /\ allVsis' # allVsis
          => /\ inflight' # inflight
             /\ inflight' \subseteq inflight
             /\ error' = error
             /\ allVsis' \in Responses]_vars

\* a filter dropped a record of a stored response from the published
\* graph and the dataset still holds it
C18_Witness ==
    /\ Settled
    /\ Len(allVsis) = 2
    /\ Len(filteredVsis) = 1
    /\ filterName # <<>>
    /\ allVsis \in Responses

\* record ids are unique in the filtered set and link ids within a record
UniqueInputIds ==
    /\ \A i \in DOMAIN filteredVsis : Has(filteredVsis[i], "id")
    /\ \A i, j \in DOMAIN filteredVsis :
           filteredVsis[i].id = filteredVsis[j].id => i = j
    /\ \A i \in DOMAIN filteredVsis :
           LET ps == PeersOf(filteredVsis[i]) IN
           /\ \A a \in DOMAIN ps : Has(ps[a], "id")
           /\ \A a, b \in DOMAIN ps : ps[a].id = ps[b].id => a = b

\* C19: when record ids are unique and link ids are unique within each
\* record, no two nodes of a published graph share an id and no two of
\* its edges share an id.
C19_UniqueIds ==
    Settled /\ UniqueInputIds
        => /\ \A m, n \in DOMAIN nodes : nodes[m].id = nodes[n].id => m = n
           /\ \A k, l \in DOMAIN edges : edges[k].id = edges[l].id => k = l

\* C20: both endpoints of every published edge are ids of published
\* nodes, also for links whose peerAddress is empty or missing.
C20_NoDanglingEndpoint ==
    Settled
        => \A k \in DOMAIN edges :
              /\ \E n \in DOMAIN nodes :
                     nodes[n].type = "vsiNode" /\ nodes[n].id = edges[k].source
              /\ \E n \in DOMAIN nodes :
                     nodes[n].type = "peerNode" /\ nodes[n].id = edges[k].target

\* a link without peerAddress and a link with an empty one each have an
\* edge whose target node is published
C20_Witness ==
    /\ Settled
    /\ \E r \in LinkRefs :
           /\ ~Has(LinkAt(r), "peerAddress")
           /\ \E k \in EdgesOf(r) : \E n \in DOMAIN nodes :
                  nodes[n].id = edges[k].target
    /\ \E r \in LinkRefs :
           /\ Has(LinkAt(r), "peerAddress") /\ LinkAt(r).peerAddress = ""
           /\ \E k \in EdgesOf(r) : \E n \in DOMAIN nodes :
                  nodes[n].id = edges[k].target

\* traversal order of links: records in filtered order, links in list order
Before(r, s) == r[1] < s[1] \/ (r[1] = s[1] /\ r[2] < s[2])

\* the links that are the first of their address in traversal order
FirstRefs ==
    {r \in LinkRefs :
        \A s \in LinkRefs :
            Before(s, r)
                => Opt(LinkAt(s), "peerAddress") # Opt(LinkAt(r), "peerAddress")}

\* 0-based slot of a first link: the number of first links before it
SlotOf(r) == Cardinality({s \in FirstRefs : Before(s, r)})

PeerNodeIndexes == {k \in DOMAIN nodes : nodes[k].type = "peerNode"}

\* C21: there is one peer node per address of the filtered set; its
\* payload (address, device name) is that of the first link with the
\* address in traversal order, and its position is the slot of that first
\* link: x = 100 + 200 * (number of addresses seen before), y = 400.
C21_FirstLinkWins ==
    Settled
        => /\ Cardinality(PeerNodeIndexes) = Cardinality(FirstRefs)
           /\ \A r \in FirstRefs : \E k \in PeerNodeIndexes :
                 /\ nodes[k].data.ip = Opt(LinkAt(r), "peerAddress")
                 /\ nodes[k].data.name = Opt(LinkAt(r), "peerDeviceName")
                 /\ nodes[k].position.x = PeerBaseX + SlotOf(r) * PeerSpacing
                 /\ nodes[k].position.y = PeerYPos

\* three addresses; a later link repeats the address of an earlier one
\* under another device name
C21_Witness ==
    /\ Settled
    /\ Cardinality(FirstRefs) = 3
    /\ \E r \in FirstRefs : \E s \in LinkRefs \ FirstRefs :
          /\ Opt(LinkAt(s), "peerAddress") = Opt(LinkAt(r), "peerAddress")
          /\ Opt(LinkAt(s), "peerDeviceName") # Opt(LinkAt(r), "peerDeviceName")
          /\ SlotOf(r) > 0

\* a step in which a fetch starts, ends, ends by storing a response
FetchStarts == inflight' # inflight /\ inflight \subseteq inflight'

FetchEnds == inflight' # inflight /\ inflight' \subseteq inflight

FetchSucceeds == FetchEnds /\ effectPending' # effectPending

\* C22: every started fetch ends, and ends with loading false; error is
\* empty after the start of a fetch and is non-empty after its end exactly
\* when it failed; the dataset is written only by a fetch that succeeds.
C22_FetchLifecycle ==
    /\ \A i \in 1..MaxFetch : (i \in inflight) ~> (i \notin inflight)
    /\ [][FetchEnds => loading' = FALSE]_vars
    /\ [][FetchStarts => error' = <<>>]_vars
    /\ [][FetchEnds => (error' # <<>> <=> ~FetchSucceeds)]_vars
    /\ [][allVsis' # allVsis => FetchSucceeds]_vars

===========================================================================
